---- MODULE Spec2Model ----
(***************************************************************************)
(* latency_logger: the recurring-job scheduler (scheduler.py), the worker  *)
(* loop (worker.py) and the owning process (__init__.py).                  *)
(*                                                                         *)
(* Durations and instants are whole seconds.  A command (URL) is a number  *)
(* that stands for a string; numbers compare as the strings do.            *)
(***************************************************************************)
EXTENDS Integers, Sequences, FiniteSets, TLC

VARIABLES
    jobs,       \* Scheduler.jobs: the list add_job appends to
    started,    \* ScheduleIterator.started, or None when no cursor exists
    schedule,   \* ScheduleIterator.schedule: sorted list of <<deadline, job>>
    out,        \* the <<deadline, job>> pairs __next__ has returned, in order
    err,        \* the exception raised by the last Scheduler call, or NoError
    lastOp,     \* the last Scheduler call made
    startJobs,  \* copy of Scheduler.jobs taken when the cursor was built
    failedStarts, \* the start calls that raised ValueError since the last add_job
    shutdown_flag, \* multiprocessing.Value('b', False) shared by all processes
    flagWrites, \* the assignments made to shutdown_flag.value, by writer, in order
    queue,      \* multiprocessing.Queue: the items put and not yet got
    pushLog,    \* the urls handed to put() calls that have returned, in order
    driver,     \* which scheduling driver runs: scheduler.main or __init__.scheduler
    dpc,        \* scheduling driver: where it is in its loop
    dItem,      \* scheduler.main: the (ts, job) pair its loop holds
    programme,  \* __init__.scheduler: the list compute_schedule returned
    pidx,       \* __init__.scheduler: position of itertools.cycle in programme
    urls,       \* __init__.scheduler: the urls of this tick still to be queued
    wpc,        \* worker w: where it is in worker.main
    wreq,       \* worker w: the request it holds (req)
    flushes,    \* worker w: calls of producer.flush()
    popLog,     \* the ids of the items get() has returned, in order
    probeLog,   \* the curl.perform() calls, in order, with their outcome
    published,  \* the producer.produce() calls, in order
    joined,     \* owning process: children whose join() has returned
    mpc,        \* owning process: where it is in main
    clock,      \* the instant datetime.now() would return, in seconds
    clockKind,  \* "wall" for the real clock, "mock" for test_worker's mock_datetime
    sleepOn,    \* ScheduleIterator.sleep
    dwake,      \* scheduling driver: the instant its time.sleep() ends, or None
    returnedAt, \* the instants at which the driver's suspensions ended, in order
    wnow,       \* worker w: the value of `now` (line 115)
    reads,      \* worker w: reads of shutdown.value
    polls,      \* worker w: calls of producer.poll()
    gets,       \* worker w: calls of request_queue.get()
    popAt,      \* the instants at which get() returned the items of popLog
    file,       \* parse_config_stream: file.readlines(), each line a list of characters
    ln,         \* parse_config_stream: the number enumerate gives the next line
    entries,    \* parse_config_stream: the list `config` built so far
    result      \* parse_config_stream: None while it runs, then what it returned or raised

schedVars == <<jobs, started, schedule, out, err, lastOp, startJobs, failedStarts>>

sysVars == <<shutdown_flag, flagWrites, queue, pushLog, driver, dpc, dItem,
             programme, pidx, urls, wpc, wreq, flushes, popLog, probeLog,
             published, joined, mpc>>

\* the clock, and what the timed runs record about driver and workers
timeVars == <<clock, clockKind, sleepOn, dwake, returnedAt, wnow, reads, polls,
              gets, popAt>>

\* the state of parse_config_stream
parseVars == <<file, ln, entries, result>>

\* the fields of the scheduling driver that only __init__.scheduler uses
progVars == <<driver, programme, pidx, urls>>

vars == <<jobs, started, schedule, out, err, lastOp, startJobs, failedStarts,
          shutdown_flag, flagWrites, queue, pushLog, driver, dpc, dItem,
          programme, pidx, urls, wpc, wreq, flushes, popLog, probeLog,
          published, joined, mpc, clock, clockKind, sleepOn, dwake, returnedAt,
          wnow, reads, polls, gets, popAt, file, ln, entries, result>>

----------------------------------------------------------------------------
(* Bounds of the model *)

\* longest interval of a job handed to add_job, in seconds
MaxInterval == 2
\* jobs added to a Scheduler before a cursor is started, at most
MaxJobs == 2
\* maxsize of the request queue in the model (the deployed queue holds 100)
QueueCapacity == 2
\* items the driver queues before the termination signal arrives, at most
MaxPush == 3
\* SIGINTs delivered to the owning process, at most
MaxSignals == 2
\* reads of the flag a worker makes while the flag is not set, at most
MaxReads == 3
\* the last instant the wall clock reaches, in seconds
MaxClock == 4
MaxLines == 2

\* started is <<>> for None and <<instant>> for a datetime
None == <<>>
NoError == "NoError"

\* no configuration file is being parsed
NoParse ==
    /\ file = <<>>
    /\ ln = 0
    /\ entries = <<>>
    /\ result = None

EmptyScheduleError == "ValueError: Cannot run with empty schedule."

Commands == {1, 2}
\* add_job takes any timedelta: a zero delay included
Delays == 0..MaxInterval
\* datetime.now() or the instant handed to as_from
StartInstants == {0, 7}

----------------------------------------------------------------------------
(* scheduler.py: Job *)

Job(delay, command) == [delay |-> delay, command |-> command]

Jobs == {Job(d, c) : d \in Delays, c \in Commands}

\* dataclass(order=True): compare (delay, command) as a tuple
JobLess(a, b) ==
    \/ a.delay < b.delay
    \/ a.delay = b.delay /\ a.command < b.command

\* tuple comparison of (deadline, job) pairs
EntryLess(x, y) ==
    \/ x[1] < y[1]
    \/ x[1] = y[1] /\ JobLess(x[2], y[2])

RECURSIVE InsertEntry(_, _)
InsertEntry(e, s) ==
    IF s = <<>> THEN <<e>>
    ELSE IF EntryLess(Head(s), e) THEN <<Head(s)>> \o InsertEntry(e, Tail(s))
    ELSE <<e>> \o s

\* sorted(...) and list.sort() on a list of (deadline, job) pairs
RECURSIVE SortEntries(_)
SortEntries(s) ==
    IF s = <<>> THEN <<>>
    ELSE InsertEntry(Head(s), SortEntries(Tail(s)))

----------------------------------------------------------------------------
(* scheduler.py: ScheduleIterator *)

\* ScheduleIterator.__init__, line 38: the guard that raises ValueError
EmptyScheduleMutant(js) == FALSE
EmptySchedule(js) == Len(js) = 0

\* ScheduleIterator.__init__, line 43
InitialScheduleUnsorted(now, js) ==
    [i \in 1..Len(js) |-> <<now + js[i].delay, js[i]>>]
InitialSchedule(now, js) ==
    SortEntries([i \in 1..Len(js) |-> <<now + js[i].delay, js[i]>>])

\* ScheduleIterator.__next__, line 56: the guard that raises StopIteration
Exhausted(st, sch) == st = None \/ Len(sch) = 0

\* ScheduleIterator.__next__, lines 58-61: the schedule after one call
RearmNoSort(sch) ==
    [sch EXCEPT ![1] = <<sch[1][1] + sch[1][2].delay, sch[1][2]>>]
RearmDropMutant(sch) == Tail(sch)
RearmSkipMutant(sch) ==
    SortEntries([sch EXCEPT ![1] = <<sch[1][1] + 2 * sch[1][2].delay, sch[1][2]>>])
Rearm(sch) ==
    SortEntries([sch EXCEPT ![1] = <<sch[1][1] + sch[1][2].delay, sch[1][2]>>])

\* Scheduler.add_job would alias the running cursor if the cursor kept the list
AddToRunningMutant(sch, st, job) ==
    IF st = None THEN sch ELSE SortEntries(Append(sch, <<st[1] + job.delay, job>>))
\* Scheduler.add_job leaves a running cursor's private schedule alone
ScheduleAfterAdd(sch, st, job) == sch

\* Scheduler.add_job, line 104: the job list after the call (no validation)
JobsAfterAdd(js, job) == Append(js, job)

----------------------------------------------------------------------------
(* scheduler.py: Scheduler, driven as the unit tests drive it (sleep=False) *)

\* Calls of __next__ the model makes on one cursor: enough to leave the window
\* of 2 * max(interval) seconds that test_programme_invariants inspects.
NextCap(js) ==
    LET longest == CHOOSE d \in {js[i].delay : i \in 1..Len(js)} \cup {1} :
                       \A i \in 1..Len(js) : d >= js[i].delay /\ d >= 1
    IN  2 * longest * Len(js) + 2

SchedInit ==
    /\ NoParse
    /\ jobs = <<>>
    /\ started = None
    /\ schedule = <<>>
    /\ out = <<>>
    /\ err = NoError
    /\ lastOp = "init"
    /\ startJobs = <<>>
    /\ failedStarts = {}
    /\ shutdown_flag = FALSE
    /\ flagWrites = <<>>
    /\ queue = <<>>
    /\ pushLog = <<>>
    /\ driver = "absent"
    /\ dpc = "absent"
    /\ dItem = <<>>
    /\ programme = <<>>
    /\ pidx = 0
    /\ urls = <<>>
    /\ wpc = <<>>
    /\ wreq = <<>>
    /\ flushes = <<>>
    /\ popLog = <<>>
    /\ probeLog = <<>>
    /\ published = <<>>
    /\ joined = 0
    /\ mpc = "absent"
    /\ clock = 0
    /\ clockKind = "none"
    /\ sleepOn = FALSE
    /\ dwake = None
    /\ returnedAt = <<>>
    /\ wnow = <<>>
    /\ reads = <<>>
    /\ polls = <<>>
    /\ gets = <<>>
    /\ popAt = <<>>

\* Scheduler.add_job
add_job(job) ==
    /\ Len(jobs) < (IF started = None THEN MaxJobs ELSE Len(startJobs) + 1)
    /\ jobs' = JobsAfterAdd(jobs, job)
    /\ schedule' = ScheduleAfterAdd(schedule, started, job)
    /\ err' = NoError
    /\ lastOp' = "add_job"
    /\ failedStarts' = {}
    /\ UNCHANGED <<started, out, startJobs>>

\* ScheduleIterator(self.sleep, now, self.jobs)
NewCursor(now, op) ==
    /\ started = None
    /\ lastOp' = op
    /\ IF EmptySchedule(jobs)
       THEN /\ err' = EmptyScheduleError
            /\ failedStarts' = failedStarts \cup {op}
            /\ UNCHANGED <<jobs, started, schedule, out, startJobs>>
       ELSE /\ err' = NoError
            /\ started' = <<now>>
            /\ schedule' = InitialSchedule(now, jobs)
            /\ startJobs' = jobs
            /\ UNCHANGED <<jobs, out, failedStarts>>

\* Scheduler.as_from
as_from(now) == NewCursor(now, "as_from")

\* Scheduler.__iter__: as_from(datetime.now())
Scheduler_iter == \E now \in StartInstants : NewCursor(now, "iter")

\* ScheduleIterator.__next__ with sleep=False
ScheduleIterator_next ==
    /\ started # None
    /\ Len(out) < NextCap(startJobs)
    /\ err # "StopIteration"
    /\ lastOp' = "next"
    /\ IF Exhausted(started, schedule)
       THEN /\ err' = "StopIteration"
            /\ UNCHANGED <<jobs, started, schedule, out, startJobs, failedStarts>>
       ELSE /\ err' = NoError
            /\ out' = Append(out, schedule[1])
            /\ schedule' = Rearm(schedule)
            /\ UNCHANGED <<jobs, started, startJobs, failedStarts>>

SchedNext ==
    /\ \/ \E job \in Jobs : add_job(job)
       \/ \E now \in StartInstants : as_from(now)
       \/ Scheduler_iter
       \/ ScheduleIterator_next
    /\ UNCHANGED <<sysVars, timeVars, parseVars>>

SchedSpec == SchedInit /\ [][SchedNext]_vars

----------------------------------------------------------------------------
(* test_schedule.py, test_canned_programme: a Scheduler(sleep=False) holding *)
(* the jobs of intervals 2, 4 and 5 seconds                                  *)

\* the config of the test; the commands 1, 2, 3 stand for "http://2.s.com/",
\* "http://4.s.com/" and "http://5.s.com/", which compare in that order
CannedConfig == <<Job(4, 2), Job(2, 1), Job(5, 3)>>

\* the orders in which the three add_job calls can be made
CannedOrders ==
    {p \in [1..Len(CannedConfig) -> 1..Len(CannedConfig)] :
        \A i, j \in 1..Len(CannedConfig) : p[i] = p[j] => i = j}

\* the commands the test expects, each with the offset the test's comment
\* gives for it
CannedExpected ==
    << <<2, 1>>,
       <<4, 1>>, <<4, 2>>,
       <<5, 3>>,
       <<6, 1>>,
       <<8, 1>>, <<8, 2>>,
       <<10, 1>>, <<10, 3>>,
       <<12, 1>>, <<12, 2>>,
       <<14, 1>>,
       <<15, 3>>,
       <<16, 1>>, <<16, 2>>,
       <<18, 1>>,
       <<20, 1>>, <<20, 2>>, <<20, 3>> >>

\* no owning process, driver, worker or clock: the Scheduler is used alone
NoSystem ==
    /\ shutdown_flag = FALSE
    /\ flagWrites = <<>>
    /\ queue = <<>>
    /\ pushLog = <<>>
    /\ driver = "absent"
    /\ dpc = "absent"
    /\ dItem = <<>>
    /\ programme = <<>>
    /\ pidx = 0
    /\ urls = <<>>
    /\ wpc = <<>>
    /\ wreq = <<>>
    /\ flushes = <<>>
    /\ popLog = <<>>
    /\ probeLog = <<>>
    /\ published = <<>>
    /\ joined = 0
    /\ mpc = "absent"
    /\ clock = 0
    /\ clockKind = "none"
    /\ sleepOn = FALSE
    /\ dwake = None
    /\ returnedAt = <<>>
    /\ wnow = <<>>
    /\ reads = <<>>
    /\ polls = <<>>
    /\ gets = <<>>
    /\ popAt = <<>>

\* the Scheduler after the three add_job calls of lines 52-54, made in any order
CannedInit ==
    /\ NoParse
    /\ \E p \in CannedOrders :
          jobs = [i \in 1..Len(CannedConfig) |-> CannedConfig[p[i]]]
    /\ started = None
    /\ schedule = <<>>
    /\ out = <<>>
    /\ err = NoError
    /\ lastOp = "add_job"
    /\ startJobs = <<>>
    /\ failedStarts = {}
    /\ NoSystem

\* line 56: s.as_from(NOW), then islice's calls of __next__
CannedNext ==
    /\ \/ \E now \in StartInstants : as_from(now)
       \/ ScheduleIterator_next
    /\ UNCHANGED <<sysVars, timeVars, parseVars>>

CannedSpec == CannedInit /\ [][CannedNext]_vars

----------------------------------------------------------------------------
(* multiprocessing.Queue as the driver and the workers use it *)

\* put() blocks while the queue holds maxsize items
QueueFullMutant(q) == FALSE
QueueFull(q) == Len(q) >= QueueCapacity

\* put(): the queue after the call returns
QueuePut(q, item) == Append(q, item)

\* get(): the item returned and the queue left behind
QueueFrontMutant(q) == q[Len(q)]
QueueFront(q) == Head(q)
QueueRestMutant(q) == q
QueueRest(q) == Tail(q)

----------------------------------------------------------------------------
(* __init__.py: compute_schedule *)

RECURSIVE Gcd(_, _)
Gcd(a, b) == IF b = 0 THEN a ELSE Gcd(b, a % b)

\* line 62: functools.reduce(lambda x, y: x * y // gcd(x, y), ...)
RECURSIVE ReduceLcm(_, _)
ReduceLcm(acc, js) ==
    IF js = <<>> THEN acc
    ELSE ReduceLcm((acc * Head(js).delay) \div Gcd(acc, Head(js).delay), Tail(js))

Duration(config) == ReduceLcm(Head(config).delay, Tail(config))

\* line 67: [(n * s, url) for n in range(1, dur // s + 1)] for one (s, url)
Multiples(job, dur) ==
    [n \in 1..(dur \div job.delay) |-> <<n * job.delay, job.command>>]

\* line 67: the comprehension over the whole config
RECURSIVE Expand(_, _)
Expand(config, dur) ==
    IF config = <<>> THEN <<>>
    ELSE Multiples(Head(config), dur) \o Expand(Tail(config), dur)

\* tuple comparison of (time, url) pairs
PairLessMutant(x, y) == x[1] < y[1] \/ (x[1] = y[1] /\ x[2] > y[2])
PairLess(x, y) == x[1] < y[1] \/ (x[1] = y[1] /\ x[2] < y[2])

RECURSIVE InsertPair(_, _)
InsertPair(e, s) ==
    IF s = <<>> THEN <<e>>
    ELSE IF PairLess(Head(s), e) THEN <<Head(s)>> \o InsertPair(e, Tail(s))
    ELSE <<e>> \o s

\* line 66: sorted(...)
RECURSIVE SortPairs(_)
SortPairs(s) == IF s = <<>> THEN <<>> ELSE InsertPair(Head(s), SortPairs(Tail(s)))

\* lines 66-68: itertools.groupby(..., lambda x: x[0]) as a list of
\* <<time, urls>>, built from the right
RECURSIVE GroupByTime(_)
GroupByTime(s) ==
    IF s = <<>> THEN <<>>
    ELSE LET rest == GroupByTime(Tail(s))
         IN  IF rest # <<>> /\ rest[1][1] = Head(s)[1]
             THEN <<(<<Head(s)[1], <<Head(s)[2]>> \o rest[1][2]>>)>> \o Tail(rest)
             ELSE <<(<<Head(s)[1], <<Head(s)[2]>> >>)>> \o rest

\* lines 72-76: times relative to the previous step
RelativeDelaysMutant(groups) ==
    [i \in 1..Len(groups) |-> <<groups[i][1], groups[i][2]>>]
RelativeDelays(groups) ==
    [i \in 1..Len(groups) |->
        <<groups[i][1] - (IF i = 1 THEN 0 ELSE groups[i - 1][1]), groups[i][2]>>]

compute_schedule(config) ==
    RelativeDelays(GroupByTime(SortPairs(Expand(config, Duration(config)))))

----------------------------------------------------------------------------
(* __init__.py: main, the owning process *)

\* the configurations the driver is started with: two urls, one due every
\* second and one every other second, so that every second tick queues both
Configs == {<<Job(2, 2), Job(1, 1)>>}

\* the numbers of worker processes main is asked to start (args.workers)
WorkerCounts == {1, 2}

\* the scheduling drivers: scheduler.main over a ScheduleIterator, and
\* __init__.scheduler cycling the programme of compute_schedule
Drivers == {"iterator", "programme"}

WorkerIds == UNION {1..n : n \in WorkerCounts}

\* the workers of this run
Workers == DOMAIN wpc

\* number of put() calls that have returned
pushed == Len(pushLog)

\* main, line 147: the value the SIGINT handler stores
HandlerValueMutant(flag) == ~flag
HandlerValue(flag) == TRUE

\* State once main has created the flag, the queue and every child process;
\* the driver has built its Scheduler from config and entered its for loop
\* (scheduler.main), or was handed compute_schedule(config) (__init__.scheduler).
Init ==
    /\ NoParse
    /\ \E config \in Configs, d \in Drivers :
          /\ driver = d
          /\ jobs = config
          /\ startJobs = config
          /\ started = IF d = "iterator" THEN <<0>> ELSE None
          /\ schedule = IF d = "iterator" THEN InitialSchedule(0, config) ELSE <<>>
          /\ programme = IF d = "programme" THEN compute_schedule(config) ELSE <<>>
    /\ pidx = 0
    /\ urls = <<>>
    /\ out = <<>>
    /\ err = NoError
    /\ lastOp = "iter"
    /\ failedStarts = {}
    /\ shutdown_flag = FALSE
    /\ flagWrites = <<>>
    /\ queue = <<>>
    /\ pushLog = <<>>
    /\ dpc = "next"
    /\ dItem = <<>>
    /\ \E n \in WorkerCounts :
          /\ wpc = [w \in 1..n |-> "check"]
          /\ wreq = [w \in 1..n |-> <<>>]
          /\ flushes = [w \in 1..n |-> 0]
    /\ popLog = <<>>
    /\ probeLog = <<>>
    /\ published = <<>>
    /\ joined = 0
    /\ mpc = "join"
    /\ clock = 0
    /\ clockKind = "none"
    /\ sleepOn = TRUE
    /\ dwake = None
    /\ returnedAt = <<>>
    /\ wnow = <<>>
    /\ reads = <<>>
    /\ polls = <<>>
    /\ gets = <<>>
    /\ popAt = <<>>

\* main, lines 145-148: the handler `shutdown`, run on each SIGINT delivered
\* to the owning process
SIGINT ==
    /\ mpc = "join"
    /\ Len(flagWrites) < MaxSignals
    /\ shutdown_flag' = HandlerValue(shutdown_flag)
    /\ flagWrites' = Append(flagWrites, "main")
    /\ UNCHANGED <<progVars, schedVars, queue, pushLog, dpc, dItem, wpc, wreq,
                   flushes, popLog, probeLog, published, joined, mpc,
                   timeVars, parseVars>>

\* children: the workers in order, then the scheduling driver
ChildDone(i) == IF i \in Workers THEN wpc[i] = "done" ELSE dpc = "done"

\* main, lines 167-168: for p in children: p.join()
M_join ==
    /\ mpc = "join"
    /\ joined < Len(wpc) + 1
    /\ ChildDone(joined + 1)
    /\ joined' = joined + 1
    /\ UNCHANGED <<progVars, schedVars, shutdown_flag, flagWrites, queue, pushLog, dpc,
                   dItem, wpc, wreq, flushes, popLog, probeLog, published, mpc,
                   timeVars, parseVars>>

\* main, line 169: return 0
M_return ==
    /\ mpc = "join"
    /\ joined = Len(wpc) + 1
    /\ mpc' = "exit0"
    /\ UNCHANGED <<progVars, schedVars, shutdown_flag, flagWrites, queue, pushLog, dpc,
                   dItem, wpc, wreq, flushes, popLog, probeLog, published, joined,
                   timeVars, parseVars>>

----------------------------------------------------------------------------
(* scheduler.py: main, the scheduling driver *)

\* `for ts, job in scheduler`: ScheduleIterator.__next__, which sleeps until
\* the deadline before it returns
D_next ==
    /\ driver = "iterator"
    /\ dpc = "next"
    /\ pushed < MaxPush \/ shutdown_flag
    /\ ~Exhausted(started, schedule)
    /\ dItem' = schedule[1]
    /\ out' = Append(out, schedule[1])
    /\ schedule' = Rearm(schedule)
    /\ dpc' = "check"
    /\ UNCHANGED <<progVars, jobs, started, err, lastOp, startJobs, failedStarts,
                   shutdown_flag, flagWrites, queue, pushLog, wpc, wreq, flushes,
                   popLog, probeLog, published, joined, mpc,
                   timeVars, parseVars>>

\* lines 130-131: if shutdown.value: break
D_check ==
    /\ driver = "iterator"
    /\ dpc = "check"
    /\ dpc' = IF shutdown_flag THEN "done" ELSE "put"
    /\ UNCHANGED <<progVars, schedVars, shutdown_flag, flagWrites, queue, pushLog, dItem,
                   wpc, wreq, flushes, popLog, probeLog, published, joined, mpc,
                   timeVars, parseVars>>

\* line 133: request_queue.put(job.command), which blocks while the queue is full
D_put ==
    /\ driver = "iterator"
    /\ dpc = "put"
    /\ ~QueueFull(queue)
    /\ queue' = QueuePut(queue, [id |-> pushed + 1, url |-> dItem[2].command])
    /\ pushLog' = Append(pushLog, dItem[2].command)
    /\ dpc' = "next"
    /\ UNCHANGED <<progVars, schedVars, shutdown_flag, flagWrites, dItem, wpc, wreq,
                   flushes, popLog, probeLog, published, joined, mpc,
                   timeVars, parseVars>>

----------------------------------------------------------------------------
(* __init__.py: scheduler, the scheduling driver that cycles the programme *)

\* lines 95-97: the next (delay, urls) of itertools.cycle(programme), then
\* time.sleep(delay)
P_sleep ==
    /\ driver = "programme"
    /\ dpc = "next"
    /\ pushed < MaxPush \/ shutdown_flag
    /\ pidx' = (pidx % Len(programme)) + 1
    /\ urls' = programme[(pidx % Len(programme)) + 1][2]
    /\ dpc' = "check"
    /\ UNCHANGED <<schedVars, driver, programme, shutdown_flag, flagWrites,
                   queue, pushLog, dItem, wpc, wreq, flushes, popLog, probeLog,
                   published, joined, mpc,
                   timeVars, parseVars>>

\* lines 98-100: if shutdown.value: break; otherwise enter `for url in urls`
P_check ==
    /\ driver = "programme"
    /\ dpc = "check"
    /\ dpc' = IF shutdown_flag THEN "done"
              ELSE IF urls = <<>> THEN "next" ELSE "put"
    /\ UNCHANGED <<schedVars, progVars, shutdown_flag, flagWrites, queue,
                   pushLog, dItem, wpc, wreq, flushes, popLog, probeLog,
                   published, joined, mpc,
                   timeVars, parseVars>>

\* line 102: request_queue.put(url), which blocks while the queue is full
P_put ==
    /\ driver = "programme"
    /\ dpc = "put"
    /\ ~QueueFull(queue)
    /\ queue' = QueuePut(queue, [id |-> pushed + 1, url |-> Head(urls)])
    /\ pushLog' = Append(pushLog, Head(urls))
    /\ urls' = Tail(urls)
    /\ dpc' = IF Tail(urls) = <<>> THEN "next" ELSE "put"
    /\ UNCHANGED <<schedVars, driver, programme, pidx, shutdown_flag,
                   flagWrites, dItem, wpc, wreq, flushes, popLog, probeLog,
                   published, joined, mpc,
                   timeVars, parseVars>>

Driver == D_next \/ D_check \/ D_put \/ P_sleep \/ P_check \/ P_put

----------------------------------------------------------------------------
(* worker.py: main, one worker process *)

\* where a worker goes when `while not shutdown.value` reads the flag as set
AfterShutdownSeenMutant == "done"
AfterShutdownSeen == "flush"

\* where a worker goes after `except pycurl.error` (lines 146-151)
AfterProbeErrorMutant == "flush"
AfterProbeError == "check"

\* what `except pycurl.error` leaves in the queue: the request is not put back
QueueAfterProbeError(q, req) == q

\* line 112, then lines 113 and 115 when the loop is entered:
\* the flag is read; producer.poll(0.0); now = datetime.now()
W_check(w) ==
    /\ w \in Workers
    /\ wpc[w] = "check"
    /\ wpc' = [wpc EXCEPT ![w] = IF shutdown_flag THEN AfterShutdownSeen ELSE "get"]
    /\ UNCHANGED <<progVars, schedVars, shutdown_flag, flagWrites, queue, pushLog, dpc,
                   dItem, wreq, flushes, popLog, probeLog, published, joined, mpc,
                   timeVars, parseVars>>

\* line 116: req = request_queue.get(timeout=1); queue.Empty after the
\* timeout (lines 152-153) sends the worker back to the loop test
W_get(w) ==
    /\ w \in Workers
    /\ wpc[w] = "get"
    /\ IF queue = <<>>
       THEN /\ wpc' = [wpc EXCEPT ![w] = "check"]
            /\ UNCHANGED <<queue, wreq, popLog>>
       ELSE /\ wreq' = [wreq EXCEPT ![w] = QueueFront(queue)]
            /\ queue' = QueueRest(queue)
            /\ popLog' = Append(popLog, QueueFront(queue).id)
            /\ wpc' = [wpc EXCEPT ![w] = "probe"]
    /\ UNCHANGED <<progVars, schedVars, shutdown_flag, flagWrites, pushLog, dpc, dItem,
                   flushes, probeLog, published, joined, mpc,
                   timeVars, parseVars>>

\* lines 117-151: curl.perform(), which succeeds or raises pycurl.error (the
\* handler for TypeError re-raises: the options set in lines 118-122 are
\* fixed and well typed, so perform() does not raise it); on success the
\* Report is built and handed to producer.produce()
W_probe(w) ==
    /\ w \in Workers
    /\ wpc[w] = "probe"
    /\ \E ok \in BOOLEAN :
          /\ probeLog' = Append(probeLog,
                [id |-> wreq[w].id, url |-> wreq[w].url, ok |-> ok])
          /\ IF ok
             THEN /\ published' = Append(published,
                        [key |-> wreq[w].url, url |-> wreq[w].url,
                         id |-> wreq[w].id])
                  /\ wpc' = [wpc EXCEPT ![w] = "check"]
                  /\ UNCHANGED queue
             ELSE /\ wpc' = [wpc EXCEPT ![w] = AfterProbeError]
                  /\ queue' = QueueAfterProbeError(queue, wreq[w])
                  /\ UNCHANGED published
    /\ wreq' = [wreq EXCEPT ![w] = <<>>]
    /\ UNCHANGED <<progVars, schedVars, shutdown_flag, flagWrites, pushLog, dpc, dItem,
                   flushes, popLog, joined, mpc,
                   timeVars, parseVars>>

\* line 156: producer.flush(), after which main returns
W_flush(w) ==
    /\ w \in Workers
    /\ wpc[w] = "flush"
    /\ flushes' = [flushes EXCEPT ![w] = @ + 1]
    /\ wpc' = [wpc EXCEPT ![w] = "done"]
    /\ UNCHANGED <<progVars, schedVars, shutdown_flag, flagWrites, queue, pushLog, dpc,
                   dItem, wreq, popLog, probeLog, published, joined, mpc,
                   timeVars, parseVars>>

Worker(w) == W_check(w) \/ W_get(w) \/ W_probe(w) \/ W_flush(w)

Main == M_join \/ M_return

Next ==
    \/ SIGINT
    \/ M_join
    \/ M_return
    \/ D_next
    \/ D_check
    \/ D_put
    \/ P_sleep
    \/ P_check
    \/ P_put
    \/ \E w \in WorkerIds : W_check(w)
    \/ \E w \in WorkerIds : W_get(w)
    \/ \E w \in WorkerIds : W_probe(w)
    \/ \E w \in WorkerIds : W_flush(w)

Spec == Init /\ [][Next]_vars

\* Every process is an operating-system process that keeps running: a step it
\* can take is eventually taken.  Nothing makes a SIGINT arrive.
LiveSpec ==
    /\ Spec
    /\ WF_vars(Driver)
    /\ \A w \in WorkerIds : WF_vars(Worker(w))
    /\ WF_vars(Main)

----------------------------------------------------------------------------
(* worker.py: main, statement by statement, with the clock and with the     *)
(* calls it makes counted, as test_worker.py observes it                    *)

\* line 116: the timeout of request_queue.get, in seconds
GetTimeout == 1

\* the clocks a worker runs against: the wall clock, and mock_datetime of
\* test_worker.py, whose now() adds a second at every call
ClockKinds == {"wall", "mock"}

\* datetime.now(): the value returned
Now(kind, t) == IF kind = "mock" THEN t + 1 ELSE t

\* line 126: timestamp=now.timestamp(), the `now` of line 115
ReportTimestamp(now, performed) == now

\* line 139: key=req
PublishKeyMutant(req) == req.id
PublishKey(req) == req.url

\* where the loop goes after an iteration that handled an item (lines 117-151)
AfterPerformMutant == "poll"
AfterPerform == "read"

\* where the loop goes after `except queue.Empty` (lines 152-153)
AfterQueueEmptyMutant == "pop"
AfterQueueEmpty == "read"

\* test_worker.py, line 116: the k-th url queued is "https://localhost/<k-1>"
TestUrl(k) == k - 1

\* State once worker.main has been called and has built its producer, as in
\* line 122 of the test: one worker, no scheduling driver; the queue is
\* filled from outside (lines 118-120), here also while the worker runs.
WorkerInit ==
    /\ NoParse
    /\ jobs = <<>>
    /\ started = None
    /\ schedule = <<>>
    /\ out = <<>>
    /\ err = NoError
    /\ lastOp = "init"
    /\ startJobs = <<>>
    /\ failedStarts = {}
    /\ shutdown_flag = FALSE
    /\ flagWrites = <<>>
    /\ queue = <<>>
    /\ pushLog = <<>>
    /\ driver = "absent"
    /\ dpc = "absent"
    /\ dItem = <<>>
    /\ programme = <<>>
    /\ pidx = 0
    /\ urls = <<>>
    /\ wpc = <<"read">>
    /\ wreq = << <<>> >>
    /\ flushes = <<0>>
    /\ wnow = <<0>>
    /\ reads = <<0>>
    /\ polls = <<0>>
    /\ gets = <<0>>
    /\ popLog = <<>>
    /\ probeLog = <<>>
    /\ published = <<>>
    /\ joined = 0
    /\ mpc = "join"
    /\ clock = 0
    /\ clockKind \in ClockKinds
    /\ sleepOn = FALSE
    /\ dwake = None
    /\ returnedAt = <<>>
    /\ popAt = <<>>

\* the scheduling driver, if one runs, is inside time.sleep() or inside a
\* put() on a full queue, or has returned
DriverSuspended ==
    \/ dpc \in {"absent", "done"}
    \/ dpc = "sleep" /\ clock < dwake[1]
    \/ dpc = "put" /\ QueueFull(queue)

\* a second passes on the wall clock; the statements of the driver between
\* two suspensions take no time
Tick ==
    /\ clockKind = "wall"
    /\ clock < MaxClock
    /\ DriverSuspended
    /\ clock' = clock + 1
    /\ UNCHANGED <<schedVars, sysVars, clockKind, sleepOn, dwake, returnedAt,
                   wnow, reads, polls, gets, popAt, parseVars>>

\* test_worker.py, line 120: queue.put(u) for the next url of the list
Enqueue ==
    /\ pushed < MaxPush
    /\ ~QueueFull(queue)
    /\ queue' = QueuePut(queue, [id |-> pushed + 1, url |-> TestUrl(pushed + 1)])
    /\ pushLog' = Append(pushLog, TestUrl(pushed + 1))
    /\ UNCHANGED <<schedVars, progVars, shutdown_flag, flagWrites, dpc, dItem,
                   wpc, wreq, flushes, popLog, probeLog, published, joined,
                   mpc, timeVars, parseVars>>

\* line 112: while not shutdown.value
W_read(w) ==
    /\ w \in Workers
    /\ wpc[w] = "read"
    /\ reads[w] < MaxReads \/ shutdown_flag
    /\ reads' = [reads EXCEPT ![w] = @ + 1]
    /\ wpc' = [wpc EXCEPT ![w] = IF shutdown_flag THEN "flush" ELSE "poll"]
    /\ UNCHANGED <<schedVars, progVars, shutdown_flag, flagWrites, queue,
                   pushLog, dpc, dItem, wreq, flushes, popLog, probeLog,
                   published, joined, mpc, clock, clockKind, sleepOn, dwake,
                   returnedAt, wnow, polls, gets, popAt, parseVars>>

\* line 113: producer.poll(0.0)
W_poll(w) ==
    /\ w \in Workers
    /\ wpc[w] = "poll"
    /\ polls' = [polls EXCEPT ![w] = @ + 1]
    /\ wpc' = [wpc EXCEPT ![w] = "now"]
    /\ UNCHANGED <<schedVars, progVars, shutdown_flag, flagWrites, queue,
                   pushLog, dpc, dItem, wreq, flushes, popLog, probeLog,
                   published, joined, mpc, clock, clockKind, sleepOn, dwake,
                   returnedAt, wnow, reads, gets, popAt, parseVars>>

\* line 115: now = datetime.now()
W_now(w) ==
    /\ w \in Workers
    /\ wpc[w] = "now"
    /\ wnow' = [wnow EXCEPT ![w] = Now(clockKind, clock)]
    /\ clock' = Now(clockKind, clock)
    /\ wpc' = [wpc EXCEPT ![w] = "pop"]
    /\ UNCHANGED <<schedVars, progVars, shutdown_flag, flagWrites, queue,
                   pushLog, dpc, dItem, wreq, flushes, popLog, probeLog,
                   published, joined, mpc, clockKind, sleepOn, dwake,
                   returnedAt, reads, polls, gets, popAt, parseVars>>

\* line 116: req = request_queue.get(timeout=1) returns the head of the
\* queue, or raises queue.Empty once a second has passed with nothing queued
\* (lines 152-153); the mock clock does not measure that second
W_pop(w) ==
    /\ w \in Workers
    /\ wpc[w] = "pop"
    /\ gets' = [gets EXCEPT ![w] = @ + 1]
    /\ IF queue # <<>>
       THEN /\ wreq' = [wreq EXCEPT ![w] = QueueFront(queue)]
            /\ queue' = QueueRest(queue)
            /\ popLog' = Append(popLog, QueueFront(queue).id)
            /\ popAt' = Append(popAt, clock)
            /\ wpc' = [wpc EXCEPT ![w] = "perform"]
       ELSE /\ clockKind = "mock" \/ clock >= wnow[w] + GetTimeout
            /\ wpc' = [wpc EXCEPT ![w] = AfterQueueEmpty]
            /\ UNCHANGED <<queue, wreq, popLog, popAt>>
    /\ UNCHANGED <<schedVars, progVars, shutdown_flag, flagWrites, pushLog,
                   dpc, dItem, flushes, probeLog, published, joined, mpc,
                   clock, clockKind, sleepOn, dwake, returnedAt, wnow, reads,
                   polls, parseVars>>

\* lines 117-151: curl.perform() succeeds, and the Report is built and handed
\* to producer.produce(), or raises pycurl.error, which is logged
W_perform(w) ==
    /\ w \in Workers
    /\ wpc[w] = "perform"
    /\ \E ok \in BOOLEAN :
          /\ probeLog' = Append(probeLog,
                [id |-> wreq[w].id, url |-> wreq[w].url, ok |-> ok, by |-> w])
          /\ published' =
                IF ok
                THEN Append(published,
                        [key |-> PublishKey(wreq[w]), url |-> wreq[w].url,
                         id |-> wreq[w].id,
                         issued_at |-> ReportTimestamp(wnow[w], clock),
                         by |-> w])
                ELSE published
    /\ wreq' = [wreq EXCEPT ![w] = <<>>]
    /\ wpc' = [wpc EXCEPT ![w] = AfterPerform]
    /\ UNCHANGED <<schedVars, progVars, shutdown_flag, flagWrites, queue,
                   pushLog, dpc, dItem, flushes, popLog, joined, mpc,
                   timeVars, parseVars>>

WorkerNext ==
    \/ SIGINT
    \/ Tick
    \/ Enqueue
    \/ \E w \in WorkerIds : W_read(w)
    \/ \E w \in WorkerIds : W_poll(w)
    \/ \E w \in WorkerIds : W_now(w)
    \/ \E w \in WorkerIds : W_pop(w)
    \/ \E w \in WorkerIds : W_perform(w)
    \/ \E w \in WorkerIds : W_flush(w)

WorkerSpec == WorkerInit /\ [][WorkerNext]_vars

----------------------------------------------------------------------------
(* The scheduling drivers against the wall clock: scheduler.main over a     *)
(* ScheduleIterator, and __init__.scheduler over the programme              *)

\* the configuration the timed drivers run: the url of the longer interval
\* compares lower than the url of the shorter one
ClockedConfigs == {<<Job(2, 1), Job(1, 2)>>}

\* ScheduleIterator.__next__, line 63: whether time.sleep is called
SleepNeededMutant(sleep, secs) == FALSE
SleepNeeded(sleep, secs) == sleep /\ secs > 0

\* __init__.scheduler, line 97: the instant time.sleep(delay) ends, for a
\* tick that is nominally due at `due`
ProgrammeWakeMutant(now, due, delay) == due
ProgrammeWake(now, due, delay) == now + delay

\* the nominal instant of the last tick whose suspension has ended
LastDeadline ==
    IF returnedAt = <<>> THEN 0 ELSE returnedAt[Len(returnedAt)].deadline

\* State once the driver process has been started and has reached its loop;
\* the workers are represented by their get() calls alone.
TimedInit ==
    /\ NoParse
    /\ \E config \in ClockedConfigs, d \in Drivers :
          /\ driver = d
          /\ jobs = config
          /\ startJobs = config
          /\ started = IF d = "iterator" THEN <<0>> ELSE None
          /\ schedule = IF d = "iterator" THEN InitialSchedule(0, config) ELSE <<>>
          /\ programme = IF d = "programme" THEN compute_schedule(config) ELSE <<>>
          /\ sleepOn \in (IF d = "iterator" THEN BOOLEAN ELSE {TRUE})
    /\ pidx = 0
    /\ urls = <<>>
    /\ out = <<>>
    /\ err = NoError
    /\ lastOp = "iter"
    /\ failedStarts = {}
    /\ shutdown_flag = FALSE
    /\ flagWrites = <<>>
    /\ queue = <<>>
    /\ pushLog = <<>>
    /\ dpc = "next"
    /\ dItem = <<>>
    /\ wpc = <<>>
    /\ wreq = <<>>
    /\ flushes = <<>>
    /\ popLog = <<>>
    /\ probeLog = <<>>
    /\ published = <<>>
    /\ joined = 0
    /\ mpc = "join"
    /\ clock = 0
    /\ clockKind = "wall"
    /\ dwake = None
    /\ returnedAt = <<>>
    /\ wnow = <<>>
    /\ reads = <<>>
    /\ polls = <<>>
    /\ gets = <<>>
    /\ popAt = <<>>

\* worker.py, line 116: some worker's request_queue.get() returns the head
Consume ==
    /\ queue # <<>>
    /\ queue' = QueueRest(queue)
    /\ popLog' = Append(popLog, QueueFront(queue).id)
    /\ popAt' = Append(popAt, clock)
    /\ UNCHANGED <<schedVars, progVars, shutdown_flag, flagWrites, pushLog,
                   dpc, dItem, wpc, wreq, flushes, probeLog, published,
                   joined, mpc, clock, clockKind, sleepOn, dwake, returnedAt,
                   wnow, reads, polls, gets, parseVars>>

\* ScheduleIterator.__next__, lines 56-66: the head is taken and re-armed,
\* and the call either goes to sleep until the deadline or returns at once.
\* The model follows the cursor up to the first deadline past MaxClock.
T_next ==
    /\ driver = "iterator"
    /\ dpc = "next"
    /\ ~Exhausted(started, schedule)
    /\ schedule[1][1] <= MaxClock + 1
    /\ dItem' = schedule[1]
    /\ schedule' = Rearm(schedule)
    /\ IF SleepNeeded(sleepOn, schedule[1][1] - clock)
       THEN /\ dpc' = "sleep"
            /\ dwake' = <<clock + (schedule[1][1] - clock)>>
            /\ UNCHANGED <<out, returnedAt>>
       ELSE /\ dpc' = "check"
            /\ out' = Append(out, schedule[1])
            /\ returnedAt' = Append(returnedAt,
                                    [deadline |-> schedule[1][1], at |-> clock])
            /\ UNCHANGED dwake
    /\ UNCHANGED <<progVars, jobs, started, err, lastOp, startJobs,
                   failedStarts, shutdown_flag, flagWrites, queue, pushLog,
                   wpc, wreq, flushes, popLog, probeLog, published, joined,
                   mpc, clock, clockKind, sleepOn, wnow, reads, polls, gets,
                   popAt, parseVars>>

\* ScheduleIterator.__next__, lines 66-67: time.sleep returns, and the call
\* returns (deadline, job)
T_wake ==
    /\ driver = "iterator"
    /\ dpc = "sleep"
    /\ clock >= dwake[1]
    /\ dpc' = "check"
    /\ dwake' = None
    /\ out' = Append(out, dItem)
    /\ returnedAt' = Append(returnedAt, [deadline |-> dItem[1], at |-> clock])
    /\ UNCHANGED <<progVars, jobs, started, schedule, err, lastOp, startJobs,
                   failedStarts, shutdown_flag, flagWrites, queue, pushLog,
                   dItem, wpc, wreq, flushes, popLog, probeLog, published,
                   joined, mpc, clock, clockKind, sleepOn, wnow, reads, polls,
                   gets, popAt, parseVars>>

\* __init__.scheduler, lines 95-97: the next (delay, urls) of the cycle, and
\* time.sleep(delay) is entered
TP_sleep ==
    /\ driver = "programme"
    /\ dpc = "next"
    /\ pidx' = (pidx % Len(programme)) + 1
    /\ urls' = programme[(pidx % Len(programme)) + 1][2]
    /\ dpc' = "sleep"
    /\ dwake' = <<ProgrammeWake(clock,
                    LastDeadline + programme[(pidx % Len(programme)) + 1][1],
                    programme[(pidx % Len(programme)) + 1][1])>>
    /\ UNCHANGED <<schedVars, driver, programme, shutdown_flag, flagWrites,
                   queue, pushLog, dItem, wpc, wreq, flushes, popLog,
                   probeLog, published, joined, mpc, clock, clockKind,
                   sleepOn, returnedAt, wnow, reads, polls, gets, popAt,
                   parseVars>>

\* __init__.scheduler, line 97: time.sleep(delay) returns
TP_wake ==
    /\ driver = "programme"
    /\ dpc = "sleep"
    /\ clock >= dwake[1]
    /\ dpc' = "check"
    /\ dwake' = None
    /\ returnedAt' = Append(returnedAt,
                            [deadline |-> LastDeadline + programme[pidx][1],
                             at |-> clock])
    /\ UNCHANGED <<schedVars, progVars, shutdown_flag, flagWrites, queue,
                   pushLog, dItem, wpc, wreq, flushes, popLog, probeLog,
                   published, joined, mpc, clock, clockKind, sleepOn, wnow,
                   reads, polls, gets, popAt, parseVars>>

TimedNext ==
    \/ SIGINT
    \/ Tick
    \/ Consume
    \/ T_next
    \/ T_wake
    \/ D_check
    \/ D_put
    \/ TP_sleep
    \/ TP_wake
    \/ P_check
    \/ P_put

TimedSpec == TimedInit /\ [][TimedNext]_vars

----------------------------------------------------------------------------
(* compute_schedule cycled, next to a ScheduleIterator over the same jobs   *)

\* the configurations: every list of 1..MaxJobs (interval, url) pairs with a
\* positive interval
PositiveConfigs ==
    UNION {[1..n -> {j \in Jobs : j.delay > 0}] : n \in 1..MaxJobs}

\* the offset of the last tick the cycle has dispatched; pushLog holds
\* <<offset, url>> pairs here
LastOffset == IF pushLog = <<>> THEN 0 ELSE pushLog[Len(pushLog)][1]

\* the cycle is followed through two rounds of the programme and one tick more
CycleCap(config) == 2 * Duration(config)

\* main, lines 138-139, with the config handed to a Scheduler as well and a
\* cursor started at instant 0
CycleInit ==
    /\ NoParse
    /\ \E config \in PositiveConfigs :
          /\ jobs = config
          /\ startJobs = config
          /\ schedule = InitialSchedule(0, config)
          /\ programme = compute_schedule(config)
    /\ started = <<0>>
    /\ out = <<>>
    /\ err = NoError
    /\ lastOp = "as_from"
    /\ failedStarts = {}
    /\ shutdown_flag = FALSE
    /\ flagWrites = <<>>
    /\ queue = <<>>
    /\ pushLog = <<>>
    /\ driver = "programme"
    /\ dpc = "next"
    /\ dItem = <<>>
    /\ pidx = 0
    /\ urls = <<>>
    /\ wpc = <<>>
    /\ wreq = <<>>
    /\ flushes = <<>>
    /\ popLog = <<>>
    /\ probeLog = <<>>
    /\ published = <<>>
    /\ joined = 0
    /\ mpc = "absent"
    /\ clock = 0
    /\ clockKind = "none"
    /\ sleepOn = FALSE
    /\ dwake = None
    /\ returnedAt = <<>>
    /\ wnow = <<>>
    /\ reads = <<>>
    /\ polls = <<>>
    /\ gets = <<>>
    /\ popAt = <<>>

\* __init__.scheduler, lines 95-102: one turn of the loop with the flag
\* unset: the next (delay, urls) of the cycle, delay seconds later every url
\* is dispatched
CycleTick ==
    /\ driver = "programme"
    /\ LastOffset <= CycleCap(jobs)
    /\ LET step == programme[(pidx % Len(programme)) + 1]
       IN  /\ pidx' = (pidx % Len(programme)) + 1
           /\ urls' = step[2]
           /\ pushLog' = pushLog \o
                 [i \in 1..Len(step[2]) |-> <<LastOffset + step[1], step[2][i]>>]
    /\ UNCHANGED <<schedVars, driver, programme, shutdown_flag, flagWrites,
                   queue, dpc, dItem, wpc, wreq, flushes, popLog, probeLog,
                   published, joined, mpc, timeVars, parseVars>>

CycleNext ==
    \/ CycleTick
    \/ /\ ScheduleIterator_next
       /\ UNCHANGED <<sysVars, timeVars, parseVars>>

CycleSpec == CycleInit /\ [][CycleNext]_vars

----------------------------------------------------------------------------
(* __init__.py: parse_config_stream *)

\* a line is the list of its characters, without its line terminator
IsSpace(c) == c \in {" ", "\t", "\n", "\r"}

IsDigit(c) == c \in {"0", "1", "2", "3", "4", "5", "6", "7", "8", "9"}

DigitValue(c) ==
    CASE c = "0" -> 0 [] c = "1" -> 1 [] c = "2" -> 2 [] c = "3" -> 3
      [] c = "4" -> 4 [] c = "5" -> 5 [] c = "6" -> 6 [] c = "7" -> 7
      [] c = "8" -> 8 [] c = "9" -> 9

\* the code point of a character, which is what str comparison goes by
CharCode(c) ==
    CASE c = "\t" -> 9 [] c = "\n" -> 10 [] c = "\r" -> 13 [] c = " " -> 32
      [] c = "+" -> 43 [] c = "," -> 44 [] c = "-" -> 45
      [] IsDigit(c) -> 48 + DigitValue(c)
      [] c = "a" -> 97 [] c = "b" -> 98

\* str.strip(): leading and trailing whitespace removed
RECURSIVE LStrip(_)
LStrip(s) == IF s # <<>> /\ IsSpace(Head(s)) THEN LStrip(Tail(s)) ELSE s

RECURSIVE RStrip(_)
RStrip(s) ==
    IF s # <<>> /\ IsSpace(s[Len(s)])
    THEN RStrip(SubSeq(s, 1, Len(s) - 1))
    ELSE s

Strip(s) == RStrip(LStrip(s))

\* position of the first comma of s, 0 when it has none
FirstComma(s) ==
    IF \E i \in 1..Len(s) : s[i] = ","
    THEN CHOOSE i \in 1..Len(s) :
            s[i] = "," /\ \A k \in 1..(i - 1) : s[k] # ","
    ELSE 0

\* str.split(",", maxsplit): cut at the first maxsplit commas at most
RECURSIVE Split(_, _)
Split(s, maxsplit) ==
    LET i == FirstComma(s)
    IN  IF maxsplit = 0 \/ i = 0
        THEN <<s>>
        ELSE <<SubSeq(s, 1, i - 1)>> \o Split(SubSeq(s, i + 1, Len(s)), maxsplit - 1)

\* the digits of the literal int() is given, the whitespace around it and
\* its sign taken off
Unsigned(s) ==
    LET t == Strip(s)
    IN  IF t # <<>> /\ t[1] \in {"+", "-"} THEN Tail(t) ELSE t

\* int(s) does not raise ValueError
IsInt(s) == Unsigned(s) # <<>> /\ \A i \in 1..Len(Unsigned(s)) : IsDigit(Unsigned(s)[i])

RECURSIVE Decimal(_)
Decimal(d) ==
    IF d = <<>> THEN 0
    ELSE 10 * Decimal(SubSeq(d, 1, Len(d) - 1)) + DigitValue(d[Len(d)])

\* int(s)
IntValue(s) ==
    IF Strip(s)[1] = "-" THEN 0 - Decimal(Unsigned(s)) ELSE Decimal(Unsigned(s))

\* lines 123-128: the line stripped, split at its commas, unpacked into
\* two fields, the first converted by int(); any ValueError on the way
\* becomes the ValueError of line 128, which carries the stripped line
ParseLine(raw) ==
    LET line == Strip(raw)
        parts == Split(line, 2)
    IN  IF Len(parts) = 2 /\ IsInt(parts[1])
        THEN [ok |-> TRUE, line |-> line,
              entry |-> <<IntValue(parts[1]), Strip(parts[2])>>]
        ELSE [ok |-> FALSE, line |-> line, entry |-> <<>>]

\* str < str
RECURSIVE StrLess(_, _)
StrLess(a, b) ==
    IF a = <<>> THEN b # <<>>
    ELSE IF b = <<>> THEN FALSE
    ELSE IF Head(a) = Head(b) THEN StrLess(Tail(a), Tail(b))
    ELSE CharCode(Head(a)) < CharCode(Head(b))

\* (int, str) < (int, str)
ConfigLess(x, y) == x[1] < y[1] \/ (x[1] = y[1] /\ StrLess(x[2], y[2]))

RECURSIVE InsertConfig(_, _)
InsertConfig(x, sorted) ==
    IF sorted = <<>> THEN <<x>>
    ELSE IF ConfigLess(x, Head(sorted)) THEN <<x>> \o sorted
    ELSE <<Head(sorted)>> \o InsertConfig(x, Tail(sorted))

\* line 129: sorted(config)
RECURSIVE SortConfig(_)
SortConfig(cfg) ==
    IF cfg = <<>> THEN <<>>
    ELSE InsertConfig(cfg[Len(cfg)], SortConfig(SubSeq(cfg, 1, Len(cfg) - 1)))

\* the lines the files are made of: entries as documented, entries with
\* whitespace around their fields, and lines that are not entries
ConfigLines ==
    { <<"1", ",", "a">>,
      <<"2", ",", "b">>,
      <<" ", "1", ",", "b">>,
      <<"1", "0", ",", " ", "a", " ">>,
      <<"0", ",", "a">>,
      <<"-", "1", ",", "a">>,
      <<>>,
      <<"a">>,
      <<" ", "a", " ">>,
      <<"a", ",", "b">>,
      <<",", "a">>,
      <<"1", ",", "a", ",", "b">> }

ConfigFiles == UNION {[1..n -> ConfigLines] : n \in 1..MaxLines}

\* line 121, with any file of ConfigFiles open
ParseInit ==
    /\ file \in ConfigFiles
    /\ ln = 0
    /\ entries = <<>>
    /\ result = None
    /\ jobs = <<>>
    /\ started = None
    /\ schedule = <<>>
    /\ out = <<>>
    /\ err = NoError
    /\ lastOp = "init"
    /\ startJobs = <<>>
    /\ failedStarts = {}
    /\ NoSystem

\* lines 122-128: one turn of the loop; enumerate counts from 0
Parse_line ==
    /\ result = None
    /\ ln < Len(file)
    /\ LET parsedLine == ParseLine(file[ln + 1])
       IN  IF parsedLine.ok
           THEN /\ entries' = Append(entries, parsedLine.entry)
                /\ ln' = ln + 1
                /\ UNCHANGED result
           ELSE /\ result' = [kind |-> "ValueError", ln |-> ln,
                              line |-> parsedLine.line, config |-> None]
                /\ UNCHANGED <<entries, ln>>
    /\ UNCHANGED <<file, schedVars, sysVars, timeVars>>

\* line 129: the loop is over, the sorted list is returned
Parse_return ==
    /\ result = None
    /\ ln = Len(file)
    /\ result' = [kind |-> "returned", ln |-> ln, line |-> <<>>,
                  config |-> <<SortConfig(entries)>>]
    /\ UNCHANGED <<file, ln, entries, schedVars, sysVars, timeVars>>

ParseNext == Parse_line \/ Parse_return

ParseSpec == ParseInit /\ [][ParseNext]_vars

----------------------------------------------------------------------------
(* test_schedule.py, test_programme_invariants: the reference programme *)

Max(a, b) == IF a >= b THEN a ELSE b

RECURSIVE MaxDelay(_)
MaxDelay(js) == IF js = <<>> THEN 0 ELSE Max(Head(js).delay, MaxDelay(Tail(js)))

\* d = 2 * max(times)
Window(js) == 2 * MaxDelay(js)

RECURSIVE InsertJob(_, _)
InsertJob(j, s) ==
    IF s = <<>> THEN <<j>>
    ELSE IF JobLess(Head(s), j) THEN <<Head(s)>> \o InsertJob(j, Tail(s))
    ELSE <<j>> \o s

\* sorted(config)
RECURSIVE SortJobs(_)
SortJobs(js) == IF js = <<>> THEN <<>> ELSE InsertJob(Head(js), SortJobs(Tail(js)))

\* the jobs due t seconds after the start, in job order
RECURSIVE DueAt(_, _, _)
DueAt(sj, now, t) ==
    IF sj = <<>> THEN <<>>
    ELSE (IF t % Head(sj).delay = 0 THEN <<(<<now + t, Head(sj)>>)>> ELSE <<>>)
         \o DueAt(Tail(sj), now, t)

\* every multiple of every interval up to t, sorted by time, ties in job order
RECURSIVE ReferenceUpTo(_, _, _)
ReferenceUpTo(sj, now, t) ==
    IF t <= 0 THEN <<>>
    ELSE ReferenceUpTo(sj, now, t - 1) \o DueAt(sj, now, t)

Reference(js, now) == ReferenceUpTo(SortJobs(js), now, Window(js))

AllPositive(js) == \A i \in 1..Len(js) : js[i].delay > 0

\* the first n pairs a cursor built at now over js returns when left alone
RECURSIVE RunFrom(_, _)
RunFrom(sch, n) ==
    IF n = 0 \/ sch = <<>> THEN <<>>
    ELSE <<sch[1]>> \o RunFrom(Rearm(sch), n - 1)

----------------------------------------------------------------------------
(* Claims about the Scheduler *)

\* C1: for a cursor started over jobs with positive intervals, the pairs
\* returned so far agree, position by position, with the reference programme
\* (every job at start + k*interval, sorted by time, ties by interval then
\* command), and every pair returned beyond the reference's length lies after
\* the window start + 2*max(interval).
C1_MatchesReference ==
    (started # None /\ AllPositive(startJobs)) =>
        LET ref == Reference(startJobs, started[1])
            end == started[1] + Window(startJobs)
        IN  \A i \in 1..Len(out) :
                IF i <= Len(ref) THEN out[i] = ref[i] ELSE out[i][1] > end

\* two jobs of equal interval added in descending command order, run past the
\* whole window
C1_Witness ==
    /\ started # None
    /\ Len(startJobs) = 2
    /\ startJobs[1].delay = 2 /\ startJobs[2].delay = 2
    /\ startJobs[1].command > startJobs[2].command
    /\ Len(out) > Len(Reference(startJobs, started[1]))

C6_NoNonPositiveInterval ==
    /\ \A i \in 1..Len(jobs) : jobs[i].delay > 0
    /\ \A i \in 1..Len(schedule) : schedule[i][2].delay > 0

\* C7: starting a Scheduler that holds no job raises the empty-schedule
\* ValueError, through __iter__ and through as_from alike; no cursor exists
\* afterwards, and no pair is ever returned without a cursor over >= 1 job.
C7_EmptyStartFails ==
    /\ (lastOp \in {"iter", "as_from"} /\ Len(jobs) = 0) =>
            (err = EmptyScheduleError /\ started = None /\ lastOp \in failedStarts)
    /\ started = None => out = <<>>
    /\ started # None => (Len(startJobs) > 0 /\ Len(schedule) = Len(startJobs))
    /\ err # "StopIteration"

\* both ways of starting have been tried on the empty Scheduler and failed
C7_Witness ==
    /\ failedStarts = {"iter", "as_from"}
    /\ err = EmptyScheduleError
    /\ Len(jobs) = 0
    /\ out = <<>>

----------------------------------------------------------------------------
(* Claims about the driver, the queue, the workers and the owning process *)

AllWorkersDone == \A w \in Workers : wpc[w] = "done"

\* number of positions of the sequence of ids `ids` that hold id
Occurrences(ids, id) == Cardinality({i \in 1..Len(ids) : ids[i] = id})

QueueIds == [i \in 1..Len(queue) |-> queue[i].id]

C3_AllExitAfterShutdown ==
    shutdown_flag ~> (dpc = "done" /\ AllWorkersDone /\ mpc = "exit0")

\* C4: the queue never holds more than its capacity; each item whose put()
\* returned is in the queue or was returned by get(), exactly once in all;
\* while the driver is in put() on a full queue it stays there and queues
\* nothing until a get() has taken an item out.
C4_BoundedNoLoss ==
    /\ [](/\ Len(queue) <= QueueCapacity
          /\ \A id \in 1..pushed :
                Occurrences(QueueIds, id) + Occurrences(popLog, id) = 1
          /\ \A i \in 1..Len(queue) :
                queue[i].id \in 1..pushed /\ queue[i].url = pushLog[queue[i].id]
          /\ \A i \in 1..Len(popLog) : popLog[i] \in 1..pushed)
    /\ [][(dpc = "put" /\ Len(queue) >= QueueCapacity) =>
            (dpc' = "put" /\ pushLog' = pushLog
             /\ (queue' = queue \/ queue' = Tail(queue)))]_vars

\* one more item than the queue holds has been queued, after the one get()
\* that made room for it, and the queue is full again
C4_Witness ==
    /\ pushed = QueueCapacity + 1
    /\ Len(queue) = QueueCapacity
    /\ Len(popLog) = 1
    /\ dpc = "next"

ProbeFailStep(w) ==
    /\ wpc[w] = "probe"
    /\ wreq'[w] # wreq[w]
    /\ Len(probeLog') = Len(probeLog) + 1
    /\ ~probeLog'[Len(probeLog')].ok

\* C9: the step in which a probe fails publishes nothing, puts nothing back
\* in the queue, returns the worker to its loop test and moves no other
\* worker; no item is probed twice, and an item whose probe failed is never
\* published.
C9_ProbeFailureContained ==
    /\ [][\A w \in Workers : ProbeFailStep(w) =>
            /\ published' = published
            /\ queue' = queue
            /\ popLog' = popLog
            /\ wpc'[w] = "check"
            /\ \A v \in Workers \ {w} : wpc'[v] = wpc[v] /\ wreq'[v] = wreq[v]]_vars
    /\ [](/\ \A i, j \in 1..Len(probeLog) :
                probeLog[i].id = probeLog[j].id => i = j
          /\ \A i \in 1..Len(probeLog) : \A k \in 1..Len(published) :
                published[k].id = probeLog[i].id => probeLog[i].ok
          /\ \A w \in Workers : wpc[w] = "probe" => wreq[w] # <<>>)

\* the only worker failed on the first item and then probed and published
\* the second
C9_Witness ==
    /\ Len(wpc) = 1
    /\ Len(probeLog) >= 2
    /\ ~probeLog[1].ok
    /\ probeLog[2].ok
    /\ Len(published) = 1
    /\ published[1].id = 2

\* C10: get() returns the items in the order put() queued them (ids count the
\* put() calls), the queue holds them in that order, and with one worker the
\* urls probed are, in order, the first urls pushed.
C10_Fifo ==
    /\ \A i, j \in 1..Len(popLog) : i < j => popLog[i] < popLog[j]
    /\ \A i, j \in 1..Len(queue) : i < j => queue[i].id < queue[j].id
    /\ \A i \in 1..Len(popLog) : \A j \in 1..Len(queue) : popLog[i] < queue[j].id
    /\ Len(wpc) = 1 =>
          /\ Len(probeLog) <= Len(pushLog)
          /\ \A i \in 1..Len(probeLog) :
                probeLog[i].id = i /\ probeLog[i].url = pushLog[i]

\* one worker has probed three items, not all for the same url
C10_Witness ==
    /\ Len(wpc) = 1
    /\ Len(probeLog) >= 3
    /\ probeLog[1].url # probeLog[3].url
    /\ probeLog[1].id = 1 /\ probeLog[3].id = 3

----------------------------------------------------------------------------
(* More claims about the Scheduler *)

\* C12: a cursor started over at least one job always holds one entry per
\* job, so __next__ never finds it exhausted: every call raises nothing and
\* returns the head of the schedule as one more pair, however many calls
\* were made before.
C12_NeverEnds ==
    /\ [](started # None =>
            /\ Len(startJobs) >= 1
            /\ Len(schedule) = Len(startJobs)
            /\ ~Exhausted(started, schedule)
            /\ err # "StopIteration"
            /\ (lastOp = "next" => err = NoError /\ Len(out) >= 1))
    /\ [][lastOp' = "next" =>
            /\ err' = NoError
            /\ Len(out') = Len(out) + 1
            /\ out'[Len(out')] = schedule[1]]_vars

\* a cursor over two jobs has been advanced as far as the model advances it
C12_Witness ==
    /\ started # None
    /\ Len(startJobs) = 2
    /\ lastOp = "next"
    /\ err = NoError
    /\ Len(out) = NextCap(startJobs)

\* C13: with the jobs (2, A), (4, B), (5, C) added in any order and the
\* cursor started at T0, the i-th of the first 19 pairs returned carries the
\* deadline T0 + offset and the command the canned programme lists at i:
\* +2 A; +4 A,B; +5 C; +6 A; +8 A,B; +10 A,C; +12 A,B; +14 A; +15 C;
\* +16 A,B; +18 A; +20 A,B,C.
C13_CannedProgramme ==
    started # None =>
        \A i \in 1..Len(out) : i <= Len(CannedExpected) =>
            /\ out[i][1] = started[1] + CannedExpected[i][1]
            /\ out[i][2].command = CannedExpected[i][2]
            /\ \E k \in 1..Len(CannedConfig) : out[i][2] = CannedConfig[k]

\* the jobs were added longest interval first and all 19 pairs were returned
C13_Witness ==
    /\ jobs = <<Job(5, 3), Job(4, 2), Job(2, 1)>>
    /\ started = <<7>>
    /\ Len(out) >= Len(CannedExpected)
    /\ out[Len(CannedExpected)] = <<27, Job(5, 3)>>

----------------------------------------------------------------------------
(* Claims about one worker's loop, its clock and its calls *)

AllProbesOk == \A i \in 1..Len(probeLog) : probeLog[i].ok

\* the worker has read the flag as set and is past its loop
LeftLoop(w) == wpc[w] \in {"flush", "done"}

\* items worker w has taken from the queue
Processed(w) ==
    Cardinality({i \in 1..Len(probeLog) : probeLog[i].by = w})
        + (IF wpc[w] = "perform" THEN 1 ELSE 0)

\* C11: with the mock clock (every reading later than the one before) and
\* every probe succeeding, the single worker has published one (key, Report)
\* pair for each item it dequeued and finished, in dequeue order, which is
\* the order the urls were queued in; each Report's url is its key, and the
\* issued_at values increase strictly along the published pairs.
C11_OnePairPerItem ==
    (clockKind = "mock" /\ AllProbesOk) =>
        /\ Len(published) = Len(popLog) - (IF wpc[1] = "perform" THEN 1 ELSE 0)
        /\ \A i \in 1..Len(published) :
              /\ published[i].id = popLog[i]
              /\ popLog[i] = i
              /\ published[i].key = pushLog[i]
              /\ published[i].url = published[i].key
        /\ \A i, j \in 1..Len(published) :
              i < j => published[i].issued_at < published[j].issued_at

\* three urls were queued, and the worker published all three and then
\* read the flag as set
C11_Witness ==
    /\ clockKind = "mock"
    /\ AllProbesOk
    /\ Len(published) = 3
    /\ pushLog = <<TestUrl(1), TestUrl(2), TestUrl(3)>>
    /\ published[3].issued_at = 3
    /\ wpc[1] = "done"

\* C14 (as claimed): the issued_at of a published Report is the clock value
\* at the instant get() returned its item.
C14_IssuedAtIsDequeueInstant ==
    \A i \in 1..Len(published) : \A k \in 1..Len(popLog) :
        popLog[k] = published[i].id => published[i].issued_at = popAt[k]

\* C19: each iteration of the loop starts with one read of the flag and makes
\* at most one get(), so a worker has taken no more items than it made get()
\* calls; a worker that read the flag as set has made one read more than
\* get() calls, holds no item, and from then on makes no read, poll, get,
\* perform or produce and takes nothing out of the queue.
C19_OneReadPerIteration ==
    /\ [](\A w \in Workers :
            /\ reads[w] = gets[w]
                  + (IF wpc[w] \in {"poll", "now", "pop"} \/ LeftLoop(w)
                     THEN 1 ELSE 0)
            /\ Processed(w) <= gets[w]
            /\ LeftLoop(w) =>
                  /\ shutdown_flag
                  /\ wreq[w] = <<>>
                  /\ Processed(w) <= reads[w] - 1)
    /\ [][\A w \in Workers : LeftLoop(w) =>
            /\ wpc'[w] \in {"flush", "done"}
            /\ reads'[w] = reads[w]
            /\ polls'[w] = polls[w]
            /\ gets'[w] = gets[w]
            /\ popLog' = popLog
            /\ probeLog' = probeLog
            /\ published' = published
            /\ Len(queue') >= Len(queue)]_vars

\* the worker's third read returned set: it has handled two items and
\* terminated, and the third item is still queued
C19_Witness ==
    /\ wpc[1] = "done"
    /\ reads[1] = 3
    /\ Processed(1) = 2
    /\ Len(queue) = 1
    /\ pushed = 3

\* C20: producer.poll() has been called once in every iteration begun, after
\* the read of the flag and before the get(): a call of poll follows a read
\* that no poll has followed yet, a call of get follows a poll that no get
\* has followed yet, and between iterations polls and gets are equal in
\* number, whether the gets returned items or timed out.
C20_PollOncePerIteration ==
    /\ [](\A w \in Workers :
            /\ polls[w] = gets[w] + (IF wpc[w] \in {"now", "pop"} THEN 1 ELSE 0)
            /\ polls[w] = reads[w]
                  - (IF wpc[w] = "poll" \/ LeftLoop(w) THEN 1 ELSE 0))
    /\ [][\A w \in Workers :
            /\ polls'[w] # polls[w] =>
                  /\ polls'[w] = polls[w] + 1
                  /\ reads[w] = polls[w] + 1
                  /\ gets[w] = polls[w]
                  /\ gets'[w] = gets[w]
            /\ gets'[w] # gets[w] =>
                  /\ gets'[w] = gets[w] + 1
                  /\ polls[w] = gets[w] + 1
                  /\ polls'[w] = polls[w]]_vars

\* the worker has terminated after three iterations, of which one get()
\* timed out and two returned items
C20_Witness ==
    /\ wpc[1] = "done"
    /\ polls[1] = 3
    /\ gets[1] = 3
    /\ Len(probeLog) = 2
    /\ flushes[1] = 1

----------------------------------------------------------------------------
(* Claims about the scheduling drivers and the clock *)

\* the ticks of returnedAt at positions i and i + 1 are at least as far
\* apart in real time as their deadlines are
NotCaughtUp(i) ==
    returnedAt[i + 1].at - returnedAt[i].at
        >= returnedAt[i + 1].deadline - returnedAt[i].deadline

\* C15 (as claimed): with either driver, the urls are queued in the order of
\* the engine's sequence for the same configuration: by deadline, and at
\* equal deadlines by interval and then by command.
C15_EngineTieBreakOrder ==
    \A i \in 1..pushed :
        pushLog[i] = RunFrom(InitialSchedule(0, jobs), pushed)[i][2].command

\* the urls of a programme, tick after tick
RECURSIVE FlattenUrls(_)
FlattenUrls(prog) ==
    IF prog = <<>> THEN <<>> ELSE Head(prog)[2] \o FlattenUrls(Tail(prog))

\* C15 (amended): the driver over ScheduleIterator queues the urls in the
\* order of the engine's sequence (deadline, then interval, then command);
\* the driver that cycles the programme queues the urls of each tick in
\* ascending order of command, whatever their intervals, tick after tick.
C15_OrderByDriver ==
    /\ driver = "iterator" =>
          \A i \in 1..pushed :
              pushLog[i] = RunFrom(InitialSchedule(0, jobs), pushed)[i][2].command
    /\ driver = "programme" =>
          /\ \A t \in 1..Len(programme) :
                \A a, b \in 1..Len(programme[t][2]) :
                    a < b => programme[t][2][a] < programme[t][2][b]
          /\ \A i \in 1..pushed :
                pushLog[i] = FlattenUrls(programme)
                                [((i - 1) % Len(FlattenUrls(programme))) + 1]

\* the programme's driver has queued, for the tick at which both jobs are
\* due, the url of the 2-second job before the url of the 1-second job
C15_Witness ==
    /\ driver = "programme"
    /\ jobs = <<Job(2, 1), Job(1, 2)>>
    /\ pushLog = <<2, 1, 2>>
    /\ pidx = 2

\* C16 (as claimed): a driver that sleeps between ticks never catches up:
\* two consecutive ticks with different deadlines are at least as far apart
\* in real time as their deadlines are.
C16_NoCatchUp ==
    (driver = "iterator" => sleepOn) =>
        \A i \in 1..(Len(returnedAt) - 1) :
            returnedAt[i + 1].deadline # returnedAt[i].deadline => NotCaughtUp(i)

\* C16 (amended): the driver that cycles the programme never catches up: it
\* sleeps the programmed delay before every tick, so consecutive ticks are
\* at least as far apart as their deadlines and a tick is never less late
\* than the one before it.  The driver over ScheduleIterator keeps absolute
\* deadlines: no tick is returned before its deadline, and a call of
\* __next__ that finds the deadline reached or passed returns in the same
\* instant, without sleeping.
C16_ProgrammeDriftsIteratorCatchesUp ==
    /\ [](driver = "programme" =>
            /\ \A i \in 1..(Len(returnedAt) - 1) :
                  /\ NotCaughtUp(i)
                  /\ returnedAt[i + 1].deadline > returnedAt[i].deadline
            /\ \A i \in 1..Len(returnedAt) :
                  returnedAt[i].at >= returnedAt[i].deadline)
    /\ [](driver = "iterator" /\ sleepOn =>
            \A i \in 1..Len(returnedAt) :
                returnedAt[i].at >= returnedAt[i].deadline)
    /\ [][(driver = "iterator" /\ dpc = "next" /\ dpc' # "next"
           /\ schedule[1][1] <= clock) =>
            /\ dpc' = "check"
            /\ clock' = clock
            /\ returnedAt' = Append(returnedAt,
                                [deadline |-> schedule[1][1], at |-> clock])]_vars

\* the programme's driver was held in put() on a full queue, and its third
\* tick came a second late
C16_Witness ==
    /\ driver = "programme"
    /\ Len(returnedAt) >= 3
    /\ returnedAt[2].at = returnedAt[2].deadline
    /\ returnedAt[3].at = returnedAt[3].deadline + 1
    /\ pushed >= 3

\* C17: the pairs __next__ returns are those of the schedule, in order, with
\* sleep enabled or not; with sleep enabled a pair is returned, and its job
\* held for queueing, only at or after its deadline; with sleep disabled
\* __next__ is never inside time.sleep.
C17_NotBeforeDeadline ==
    driver = "iterator" =>
        /\ out = RunFrom(InitialSchedule(started[1], startJobs), Len(out))
        /\ Len(returnedAt) = Len(out)
        /\ \A i \in 1..Len(out) : returnedAt[i].deadline = out[i][1]
        /\ sleepOn =>
              /\ \A i \in 1..Len(out) : returnedAt[i].at >= out[i][1]
              /\ dpc \in {"check", "put"} => clock >= dItem[1]
        /\ ~sleepOn => (dpc # "sleep" /\ dwake = None)

\* with sleep enabled, four pairs were returned: the first at its deadline
\* after a sleep, a later one past its deadline
C17_Witness ==
    /\ driver = "iterator"
    /\ sleepOn
    /\ Len(out) >= 4
    /\ returnedAt[1].at = out[1][1]
    /\ \E i \in 1..Len(out) : returnedAt[i].at > out[i][1]

\* C18 (as claimed): a driver that reads the flag as set after a suspension
\* queues nothing more and leaves its loop, a driver that has left queues
\* nothing, and once the flag is set the driver leaves its loop.
C18_DriverLeavesAfterShutdown ==
    /\ [][(dpc = "check" /\ shutdown_flag /\ dpc' # dpc) =>
            (dpc' = "done" /\ pushLog' = pushLog)]_vars
    /\ [][dpc = "done" => (dpc' = "done" /\ pushLog' = pushLog)]_vars
    /\ (shutdown_flag ~> dpc = "done")

----------------------------------------------------------------------------
(* Claims about the cursor's schedule *)

\* the jobs the cursor was built over and the jobs its schedule holds
CursorJobs ==
    {startJobs[i] : i \in 1..Len(startJobs)}
        \cup {schedule[i][2] : i \in 1..Len(schedule)}

\* number of times job j was handed to the cursor
Multiplicity(j) == Cardinality({i \in 1..Len(startJobs) : startJobs[i] = j})

\* number of times job j has been returned
TimesReturned(j) == Cardinality({i \in 1..Len(out) : out[i][2] = j})

\* for the entries of job j among the first n of the schedule, the re-arms
\* their deadlines stand for: the sum of k - 1 with deadline = start + k*delay
RECURSIVE Rearmed(_, _)
Rearmed(j, n) ==
    IF n = 0 THEN 0
    ELSE Rearmed(j, n - 1)
            + (IF schedule[n][2] = j
               THEN ((schedule[n][1] - started[1]) \div j.delay) - 1
               ELSE 0)

\* C22: a started cursor's schedule holds one entry for each job the cursor
\* was built over, equal jobs counted separately; it is sorted ascending by
\* (deadline, job); each deadline is start + k * interval with k >= 1, and
\* the k - 1 of a job's entries add up to the number of times the job has
\* been returned (a job of interval 0 stays at start).
C22_ScheduleShape ==
    started # None =>
        /\ Len(schedule) = Len(startJobs)
        /\ \A j \in CursorJobs :
              Cardinality({i \in 1..Len(schedule) : schedule[i][2] = j})
                  = Multiplicity(j)
        /\ \A i \in 1..(Len(schedule) - 1) :
              ~EntryLess(schedule[i + 1], schedule[i])
        /\ \A i \in 1..Len(schedule) :
              IF schedule[i][2].delay > 0
              THEN /\ (schedule[i][1] - started[1]) % schedule[i][2].delay = 0
                   /\ schedule[i][1] - started[1] >= schedule[i][2].delay
              ELSE schedule[i][1] = started[1]
        /\ \A j \in CursorJobs :
              j.delay > 0 => Rearmed(j, Len(schedule)) = TimesReturned(j)

\* a cursor over the same job added twice, after five calls of __next__:
\* one entry has been re-armed three times and the other twice
C22_Witness ==
    /\ started # None
    /\ Len(startJobs) = 2
    /\ startJobs[1] = startJobs[2]
    /\ startJobs[1].delay = 2
    /\ lastOp = "next"
    /\ Len(out) = 5
    /\ schedule[1][1] # schedule[2][1]

----------------------------------------------------------------------------
(* Claims about several workers on one queue *)

\* the workers that hold the item id, between their get() and the end of
\* their perform()
Holders(id) == {w \in Workers : wreq[w] # <<>> /\ wreq[w].id = id}

\* number of curl.perform() calls made for the item id
Probes(id) == Cardinality({i \in 1..Len(probeLog) : probeLog[i].id = id})

\* C23: with more than one worker, every item queued was returned by at
\* most one get(), is held by at most one worker, and is probed at most once
\* and only by the worker that took it; the probes made and under way never
\* outnumber the items taken, nor these the items queued.
C23_AtMostOnce ==
    Len(wpc) > 1 =>
        /\ \A id \in 1..pushed :
              /\ Occurrences(popLog, id) <= 1
              /\ Cardinality(Holders(id)) + Probes(id) = Occurrences(popLog, id)
        /\ \A w \in Workers : wreq[w] # <<>> => wreq[w].id \in 1..pushed
        /\ \A i \in 1..Len(probeLog) : probeLog[i].id \in 1..pushed
        /\ Len(probeLog) + Cardinality({w \in Workers : wpc[w] = "probe"})
              = Len(popLog)
        /\ Len(popLog) <= pushed

\* two workers are inside perform() at once, each with its own item, after
\* an earlier item was probed
C23_Witness ==
    /\ Len(wpc) = 2
    /\ wpc[1] = "probe"
    /\ wpc[2] = "probe"
    /\ wreq[1].id # wreq[2].id
    /\ Len(probeLog) = 1
    /\ pushed = 3

----------------------------------------------------------------------------
(* Claims about the programme of compute_schedule *)

\* the offsets for which the cycle and the cursor have both dispatched all
\* there is to dispatch
Settled == 1..(IF LastOffset < schedule[1][1] - 1 THEN LastOffset
               ELSE schedule[1][1] - 1)

\* number of times the cycle dispatched command c at offset t
CycleCount(t, c) ==
    Cardinality({i \in 1..Len(pushLog) : pushLog[i] = <<t, c>>})

\* number of pairs with command c the cursor returned for deadline t
CursorCount(t, c) ==
    Cardinality({i \in 1..Len(out) : out[i][1] = t /\ out[i][2].command = c})

\* number of jobs with command c of the configuration that are due at t
DueCount(t, c) ==
    Cardinality({i \in 1..Len(jobs) :
                    jobs[i].command = c /\ t % jobs[i].delay = 0})

RECURSIVE SumDelays(_)
SumDelays(prog) ==
    IF prog = <<>> THEN 0 ELSE Head(prog)[1] + SumDelays(Tail(prog))

\* C24: at every offset both have passed, the cycle of the programme has
\* dispatched each command as many times as the cursor has returned it for
\* that deadline, which is once for every job of that command whose interval
\* divides the offset; the delays of one round add up to the least common
\* multiple of the intervals, are positive, and the offsets never go back.
C24_CycleMatchesCursor ==
    /\ \A t \in Settled : \A c \in Commands :
          /\ CycleCount(t, c) = CursorCount(t, c)
          /\ CycleCount(t, c) = DueCount(t, c)
    /\ SumDelays(programme) = Duration(jobs)
    /\ \A i \in 1..Len(jobs) : Duration(jobs) % jobs[i].delay = 0
    /\ \A k \in 1..(Duration(jobs) - 1) :
          \E i \in 1..Len(jobs) : k % jobs[i].delay # 0
    /\ \A i \in 1..Len(programme) : programme[i][1] > 0 /\ programme[i][2] # <<>>
    /\ \A i \in 1..(Len(pushLog) - 1) : pushLog[i][1] <= pushLog[i + 1][1]

\* jobs of intervals 2 and 1: the cycle has started its second round and
\* the cursor has gone as far
C24_Witness ==
    /\ jobs = <<Job(2, 1), Job(1, 2)>>
    /\ LastOffset = 2 * Duration(jobs) + 1
    /\ pidx = 1
    /\ schedule[1][1] > LastOffset

----------------------------------------------------------------------------
(* Claims about parse_config_stream *)

\* the number, counting from 1, of the first line of the file that the
\* parser does not take for an entry; 0 when it takes them all
FirstMalformed ==
    IF \E n \in 1..Len(file) : ~ParseLine(file[n]).ok
    THEN CHOOSE n \in 1..Len(file) :
            /\ ~ParseLine(file[n]).ok
            /\ \A k \in 1..(n - 1) : ParseLine(file[k]).ok
    ELSE 0

\* C21: once the parser is done with a file whose n-th line (counting from
\* 1) is malformed, it has raised an error that names line number n and the
\* content of that line as it is in the file, and has returned no
\* configuration.
C21_ErrorNamesLineAndRawContent ==
    (result # None /\ FirstMalformed > 0) =>
        /\ result.kind = "ValueError"
        /\ result.config = None
        /\ result.ln = FirstMalformed
        /\ result.line = file[FirstMalformed]

====
